---- MODULE Spec2Model ----
(***************************************************************************)
(* Model of src/src/Metropolis.py: the multi-chain Metropolis sampler      *)
(* (sampler), the single-chain kernel (MChain), the pool wrapper (ParaMC)  *)
(* and the Gelman-Rubin-Brooks factor (GRBfactor).                         *)
(*                                                                         *)
(* Quantisation.  The parameter space is one-dimensional (D = 1) and       *)
(* points are integers.  Scores (-2 log posterior) are integers or one of  *)
(* the IEEE non-finite values inf / nan.  A uniform draw u of              *)
(* np.random.rand() is one of 0/UScale .. (UScale-1)/UScale, the           *)
(* acceptance ratio r is floor(UScale * r), so that u <= r is decided      *)
(* exactly for the quantised u.  Rationals are pairs <<num, den>>.         *)
(***************************************************************************)
EXTENDS Integers, Sequences, FiniteSets, TLC

(* ---- bounds of the model ---- *)
MaxM == 2
MaxN == 2
MaxB == 2
MaxProc == 2
UScale == 4

(* ---- inputs: the values the arguments of sampler are drawn from ---- *)
Boxes == { <<0, 10>> }
BadBoxes == { <<0, 0>>, <<10, 0>> }
SigmaVals == { -1, 4 }
ZDraws == { -1, 1 }
UDraws == 0 .. (UScale - 1)
RandDraws == { 0, UScale - 1 }
None == "None"

(* ---- IEEE values of a score ---- *)
Fin(v) == [k |-> "fin", v |-> v]
PosInf == [k |-> "inf", v |-> 0]
NaN == [k |-> "nan", v |-> 0]
IsFin(s) == s.k = "fin"

(* pX > pXt on floats: false as soon as one side is nan, or both are +inf *)
FloatGT(a, b) ==
  IF IsFin(a) /\ IsFin(b) THEN a.v > b.v
  ELSE a.k = "inf" /\ IsFin(b)

(* ---- the evaluators handed to sampler ---- *)
LikeEval(like, x) == IF like = "flat" THEN 0 ELSE x
PriorEval(prior, x) == 0

(* floor(2 ln w) for w >= 1: the largest k with e^k <= w^2 (e^k in 1/1000) *)
ExpMilli == <<1000, 2718, 7389, 20086, 54598, 148413, 403429>>
TwoLogFloor(w) ==
  CHOOSE k \in 0 .. 6 :
    /\ ExpMilli[k + 1] <= 1000 * w * w
    /\ (k = 6 \/ ExpMilli[k + 2] > 1000 * w * w)

(* 2.0*np.sum(np.log(xub-xlb)): log of 0 is -inf, log of a negative is nan *)
TwoSumLog(xlb, xub) ==
  IF xub - xlb > 0 THEN Fin(TwoLogFloor(xub - xlb))
  ELSE IF xub - xlb = 0 THEN [k |-> "ninf", v |-> 0]
  ELSE NaN

(* beta = 1.0/T, for the temperatures of the model (T = 1) *)
Beta(T) == 1 \div T

(* flogpost of MChain *)
flogpost(like, prior, beta, xlb, xub, x) ==
  IF prior = None
  THEN LET t == TwoSumLog(xlb, xub) IN
       IF t.k = "fin" THEN Fin(LikeEval(like, x) * beta - t.v)
       ELSE IF t.k = "ninf" THEN PosInf
       ELSE NaN
  ELSE Fin(LikeEval(like, x) * beta + PriorEval(prior, x))

Isqrt(s) == CHOOSE r \in 0 .. s : r * r <= s /\ (r + 1) * (r + 1) > s
(* a factorisation that never fails: the root of |s| *)
Cholesky_NoCheck(s) ==
  [ok |-> TRUE, L |-> Isqrt(IF s < 0 THEN -s ELSE s)]

(* np.linalg.cholesky of the 1x1 matrix [[s]]: fails unless s > 0 *)
Cholesky(s) ==
  IF s > 0 THEN [ok |-> TRUE, L |-> Isqrt(s)] ELSE [ok |-> FALSE, L |-> 0]

(* np.clip(x, lo, hi) = minimum(maximum(x, lo), hi) *)
Max2(a, b) == IF a >= b THEN a ELSE b
Min2(a, b) == IF a <= b THEN a ELSE b
Clip(x, lo, hi) == Min2(Max2(x, lo), hi)

(* floor(UScale * exp(d/2)) for d <= 0 (exp(d/2) in 1/1000) *)
ExpHalfMilli == <<1000, 607, 368, 223, 135, 82, 50, 30, 18, 11, 7, 4, 2, 2, 1>>
ExpHalfQ(d) ==
  IF -d + 1 > Len(ExpHalfMilli) THEN 0
  ELSE (UScale * ExpHalfMilli[-d + 1]) \div 1000

(* step 2 of MChain: the acceptance ratio r, times UScale *)
AcceptRatio(pX, pXt) ==
  IF FloatGT(pX, pXt) THEN [nan |-> FALSE, q |-> UScale]
  ELSE IF IsFin(pX) /\ IsFin(pXt)
       THEN [nan |-> FALSE, q |-> ExpHalfQ(pX.v - pXt.v)]
       ELSE IF IsFin(pX) /\ pXt.k = "inf"
            THEN [nan |-> FALSE, q |-> 0]
            ELSE [nan |-> TRUE, q |-> 0]

(* step 3 of MChain: u <= r, false when r is nan *)
Accepts(u, r) == ~r.nan /\ u <= r.q

(* ---- the body of MChain ---- *)
Zeros(n) == [j \in 1 .. n |-> 0]
FinZeros(n) == [j \in 1 .. n |-> Fin(0)]

NoLocals ==
  [raised |-> FALSE, N |-> 0, X |-> 0, pX |-> Fin(0), L |-> 0, Accept |-> 0,
   Chain |-> <<>>, LogPost |-> <<>>, i |-> 0, Xt |-> 0, pXt |-> Fin(0),
   acc |-> FALSE]

(* MChain up to the loop: the Cholesky factor, the arrays, the first score. *)
(* acc is history: whether the last step accepted.                          *)
MChainBegin(like, prior, beta, N, xlb, xub, X, sig) ==
  LET ch == Cholesky(sig) IN
  IF ~ch.ok THEN [NoLocals EXCEPT !.raised = TRUE]
  ELSE [raised |-> FALSE, N |-> N, X |-> X,
        pX |-> flogpost(like, prior, beta, xlb, xub, X), L |-> ch.L,
        Accept |-> 0, Chain |-> Zeros(N), LogPost |-> FinZeros(N), i |-> 0,
        Xt |-> X, pXt |-> flogpost(like, prior, beta, xlb, xub, X),
        acc |-> FALSE]

(* the loop body without line 113: the cached score is not refreshed *)
MChainIter_StalePX(loc, like, prior, beta, xlb, xub, z, u) ==
  LET Xt == Clip(z * loc.L + loc.X, xlb, xub)
      pXt == flogpost(like, prior, beta, xlb, xub, Xt)
      a == Accepts(u, AcceptRatio(loc.pX, pXt))
      X1 == IF a THEN Xt ELSE loc.X
  IN [loc EXCEPT !.X = X1,
                 !.Accept = IF a THEN loc.Accept + 1 ELSE loc.Accept,
                 !.Chain = [loc.Chain EXCEPT ![loc.i + 1] = X1],
                 !.LogPost = [loc.LogPost EXCEPT ![loc.i + 1] = loc.pX],
                 !.i = loc.i + 1, !.Xt = Xt, !.pXt = pXt,
                 !.acc = a]

(* one iteration of the loop of MChain, with the draws z (randn) and u (rand) *)
MChainIter(loc, like, prior, beta, xlb, xub, z, u) ==
  LET Xt == Clip(z * loc.L + loc.X, xlb, xub)
      pXt == flogpost(like, prior, beta, xlb, xub, Xt)
      a == Accepts(u, AcceptRatio(loc.pX, pXt))
      X1 == IF a THEN Xt ELSE loc.X
      pX1 == IF a THEN pXt ELSE loc.pX
  IN [loc EXCEPT !.X = X1, !.pX = pX1,
                 !.Accept = IF a THEN loc.Accept + 1 ELSE loc.Accept,
                 !.Chain = [loc.Chain EXCEPT ![loc.i + 1] = X1],
                 !.LogPost = [loc.LogPost EXCEPT ![loc.i + 1] = pX1],
                 !.i = loc.i + 1, !.Xt = Xt, !.pXt = pXt,
                 !.acc = a]

(* the accepted count returned without the division of line 117 *)
AcceptRate_NoDivide(a, n) == <<a, 1>>

(* Accept /= N, as the rational Accept/N *)
AcceptRate(a, n) == <<a, n>>

(* the tuple MChain returns (the dictionary of ParaMC) *)
MChainEnd(loc) ==
  [st |-> "ok", Chain |-> loc.Chain,
   Accept |-> AcceptRate(loc.Accept, loc.N), LogPost |-> loc.LogPost]

NoRes == [st |-> "none", Chain |-> <<>>, Accept |-> <<0, 1>>, LogPost |-> <<>>]
ErrRes == [NoRes EXCEPT !.st = "err"]

(* ---- GRBfactor, in exact rational arithmetic, for ndim = 1 ---- *)
Abs(n) == IF n < 0 THEN -n ELSE n
RECURSIVE Gcd(_, _)
Gcd(a, b) == IF b = 0 THEN a ELSE Gcd(b, a % b)
RNorm(r) ==
  LET g == Gcd(Abs(r[1]), Abs(r[2]))
      sg == IF r[2] < 0 THEN -1 ELSE 1
  IN IF g = 0 THEN r ELSE <<sg * (r[1] \div g), sg * (r[2] \div g)>>
RAdd(a, b) == RNorm(<<a[1] * b[2] + b[1] * a[2], a[2] * b[2]>>)
RSub(a, b) == RNorm(<<a[1] * b[2] - b[1] * a[2], a[2] * b[2]>>)
RMul(a, b) == RNorm(<<a[1] * b[1], a[2] * b[2]>>)
RDiv(a, b) == RNorm(<<a[1] * b[2], a[2] * b[1]>>)
REq(a, b) == a[1] * b[2] = b[1] * a[2]
RLe(a, b) == a[1] * b[2] <= b[1] * a[2]

RECURSIVE RSum(_, _)
RSum(f, n) == IF n = 0 THEN <<0, 1>> ELSE RAdd(RSum(f, n - 1), f[n])

(* np.mean over a sequence of rationals *)
RMean(f) == RDiv(RSum(f, Len(f)), <<Len(f), 1>>)

(* np.cov of one variable: sum of squared deviations over (n - 1); with one *)
(* observation the division is 0/0 and the result is nan                    *)
RCov(f) ==
  LET m == RMean(f)
      dev == [j \in 1 .. Len(f) |-> RMul(RSub(f[j], m), RSub(f[j], m))]
  IN IF Len(f) < 2 THEN [nan |-> TRUE, v |-> <<0, 1>>]
     ELSE [nan |-> FALSE, v |-> RDiv(RSum(dev, Len(f)), <<Len(f) - 1, 1>>)]

ToR(row) == [j \in 1 .. Len(row) |-> <<row[j], 1>>]

(* GRBfactor with (nmax-1)/nmax as a floor division *)
GRBfactor_IntDiv(Chain) ==
  LET nchain == Len(Chain)
      nmax == Len(Chain[1])
      Mn == [c \in 1 .. nchain |-> RMean(ToR(Chain[c]))]
      Cv == [c \in 1 .. nchain |-> RCov(ToR(Chain[c]))]
      V == RSum([c \in 1 .. nchain |-> Cv[c].v], nchain)
      V1 == RDiv(V, <<nchain, 1>>)
      V2 == RCov(Mn)
  IN IF (\E c \in 1 .. nchain : Cv[c].nan) \/ V2.nan \/ V1[1] = 0
     THEN [raised |-> TRUE, sq |-> <<0, 1>>]
     ELSE [raised |-> FALSE,
           sq |-> RAdd(<<(nmax - 1) \div nmax, 1>>,
                       RMul(<<nchain + 1, nchain>>, RDiv(V2.v, V1)))]

(* GRBfactor(Chain): sq is GRB squared; raised when np.linalg.inv or        *)
(* np.linalg.eig raises (singular V1, or nan in the matrix)                 *)
GRBfactor(Chain) ==
  LET nchain == Len(Chain)
      nmax == Len(Chain[1])
      Mn == [c \in 1 .. nchain |-> RMean(ToR(Chain[c]))]
      Cv == [c \in 1 .. nchain |-> RCov(ToR(Chain[c]))]
      V == RSum([c \in 1 .. nchain |-> Cv[c].v], nchain)
      V1 == RDiv(V, <<nchain, 1>>)
      V2 == RCov(Mn)
  IN IF (\E c \in 1 .. nchain : Cv[c].nan) \/ V2.nan \/ V1[1] = 0
     THEN [raised |-> TRUE, sq |-> <<0, 1>>]
     ELSE [raised |-> FALSE,
           sq |-> RAdd(<<nmax - 1, nmax>>,
                       RMul(<<nchain + 1, nchain>>, RDiv(V2.v, V1)))]

(* ---- the state ---- *)
VARIABLES
  cfg,      \* the arguments of this invocation of sampler
  main,     \* where sampler is: [pc, i, err]
  X,        \* sampler's X: the initial points, one row per chain
  ex,       \* the executors: 0 is the calling thread, 1.. are the pool's workers
  rng,      \* np.random's global generator of each process: [gen, pos]
  queue,    \* the pool's task queue
  bres, ires,                          \* what the two p.map calls collect
  Chain, ACC, LogPost, ChainMerged, LogPostMerged, GRB,  \* sampler's arrays
  glog,     \* history: per unit, how it started and what it returned
  cnt       \* history: loop iterations and score evaluations executed so far

vars == <<cfg, main, X, ex, rng, queue, bres, ires, Chain, ACC, LogPost,
          ChainMerged, LogPostMerged, GRB, glog, cnt>>

Procs == 0 .. MaxProc
Chains == 1 .. MaxM
Phases == {"b", "s"}

IdleEx == [pc |-> "idle", ph |-> "b", c |-> 0, loc |-> NoLocals, nacc |-> 0,
           todo |-> <<>>]
NoLog == [st |-> "new", X0 |-> 0, w |-> 0, gen |-> 0, pos |-> 0, before |-> {},
          n |-> 0, steps |-> 0, last |-> 0, traj |-> <<>>, logp |-> <<>>, nacc |-> 0, rate |-> <<0, 1>>]

(* sampler lines 32-35: the default covariance, (xub - xlb) * 0.1 (the     *)
(* boxes of the model have widths that are multiples of 10)               *)
InitSigma(c) ==
  IF c.sigmaGiven THEN c.sigma ELSE (c.xub - c.xlb) \div 10

(* ---- the invocations of sampler the model explores ---- *)
Modes ==
  { [parallel |-> FALSE, processes |-> 1, start |-> "fork"] } \cup
  { [parallel |-> TRUE, processes |-> p, start |-> st] :
      p \in 1 .. MaxProc, st \in {"fork", "spawn"} }

(* a supplied Xinit: the first row outside the box, the next on its edge, ... *)
XinitRows(n) == [c \in 1 .. n |-> IF c % 2 = 1 THEN -2 ELSE 10]

MkCfg(md, M, N, B, box, xg, xi, sg, sv, like, prior) ==
  [parallel |-> md.parallel, processes |-> md.processes, start |-> md.start,
   D |-> 1, M |-> M, N |-> N, B |-> B, T |-> 1, xlb |-> box[1], xub |-> box[2],
   xinitGiven |-> xg, Xinit |-> xi, sigmaGiven |-> sg, sigma |-> sv,
   like |-> like, prior |-> prior]

DefaultSigma == <<FALSE, 0>>
Sigmas == {DefaultSigma} \cup ({TRUE} \X SigmaVals)
Scores == {<<"flat", "flat">>, <<"slope", None>>}
(* the shapes <<M, N, B>> of the runs: many short chains, one long chain,  *)
(* and two chains of two states, the least GRBfactor accepts               *)
SeqShapes == {<<MaxM, 1, 1>>, <<1, MaxN, MaxB>>, <<2, 2, 1>>, <<2, 1, 2>>, <<2, 2, 2>>}
ParShapes == {<<MaxM, 1, 1>>, <<1, MaxN, MaxB>>, <<2, 2, 1>>, <<2, 1, 2>>}
SeqModes == {md \in Modes : ~md.parallel}
OneProc == {md \in Modes : md.parallel /\ md.processes = 1 /\ md.start = "fork"}
ManyProcs == {md \in Modes : md.parallel /\ md.processes = MaxProc}

CfgsOf(mds, shapes, given, sigs, scores) ==
  { MkCfg(md, sh[1], sh[2], sh[3], box, given, IF given THEN XinitRows(sh[1]) ELSE <<>>,
          sg[1], sg[2], sc[1], sc[2]) :
      md \in mds, sh \in shapes, box \in Boxes, sg \in sigs, sc \in scores }

(* arguments that meet the interface: xlb < xub, Xinit of M rows *)
ValidCfgs ==
  CfgsOf(SeqModes, SeqShapes, TRUE, Sigmas, Scores) \cup
  CfgsOf(SeqModes, {<<2, 2, 1>>}, FALSE, {DefaultSigma}, {<<"slope", None>>}) \cup
  CfgsOf(OneProc, ParShapes, TRUE, {TRUE} \X SigmaVals, {<<"slope", None>>}) \cup
  CfgsOf(ManyProcs, ParShapes, TRUE, {<<TRUE, 4>>}, {<<"flat", "flat">>})

(* arguments that break the interface: xlb >= xub, a negative D, or an     *)
(* Xinit of M + 1 or M - 1 rows                                           *)
RunModes == {md \in Modes : md.processes = MaxProc \/ ~md.parallel}
BadCfgs ==
  { MkCfg(md, 2, 2, 1, box, TRUE, XinitRows(2), sg[1], sg[2], "slope", pr) :
      md \in RunModes, box \in BadBoxes, sg \in {DefaultSigma, <<TRUE, 4>>},
      pr \in {None, "flat"} } \cup
  { MkCfg(md, 2, 2, 1, box, TRUE, XinitRows(k), TRUE, 4, "slope", None) :
      md \in RunModes, box \in Boxes, k \in {1, 3} } \cup
  { [MkCfg(md, 2, 2, 1, box, TRUE, XinitRows(2), TRUE, 4, "slope", None)
       EXCEPT !.D = -1] : md \in RunModes, box \in Boxes }

(* the interface of sampler (D > 0, xlb < xub, Xinit of shape (M, D)) *)
BadConfig(c) ==
  \/ c.D <= 0
  \/ c.xlb >= c.xub
  \/ c.xinitGiven /\ Len(c.Xinit) # c.M

InitWith(c) ==
  /\ cfg = c
  /\ main = [pc |-> "entry", i |-> 0, err |-> "none"]
  /\ X = <<>>
  /\ ex = [w \in Procs |-> IdleEx]
  /\ rng = [w \in Procs |-> [gen |-> 0, pos |-> 0]]
  /\ queue = <<>>
  /\ bres = [c1 \in Chains |-> NoRes]
  /\ ires = [c1 \in Chains |-> NoRes]
  /\ Chain = <<>>
  /\ ACC = <<>>
  /\ LogPost = <<>>
  /\ ChainMerged = <<>>
  /\ LogPostMerged = <<>>
  /\ GRB = [raised |-> FALSE, sq |-> <<0, 1>>]
  /\ glog = [ph \in Phases |-> [c1 \in Chains |-> NoLog]]
  /\ cnt = [steps |-> 0, evals |-> 0]

Init == \E c \in ValidCfgs : InitWith(c)

InitAny == \E c \in BadCfgs : InitWith(c)

Raise(e) == [main EXCEPT !.pc = "error", !.err = e]

(* X[i,:] = np.random.rand(D) * (xub - xlb) + xlb, for the draw d/UScale *)
UniformPoint(d, xlb, xub) == (d * (xub - xlb)) \div UScale + xlb

(* sampler lines 24-43: the arrays, beta, sigma and the initial points *)
SamplerSetup ==
  /\ main.pc = "entry"
  /\ IF cfg.D < 0
     THEN \* np.zeros([M,N,D]): negative dimensions are not allowed
          /\ main' = Raise("ValueError")
          /\ UNCHANGED <<X, rng, Chain, ACC, LogPost, ChainMerged, LogPostMerged>>
     ELSE /\ Chain' = [c \in 1 .. cfg.M |-> Zeros(cfg.N)]
          /\ LogPost' = [c \in 1 .. cfg.M |-> FinZeros(cfg.N)]
          /\ ChainMerged' = Zeros(cfg.M * cfg.N)
          /\ LogPostMerged' = FinZeros(cfg.M * cfg.N)
          /\ ACC' = [c \in 1 .. cfg.M |-> <<0, 1>>]
          /\ IF cfg.xinitGiven
             THEN X' = cfg.Xinit /\ rng' = rng
             ELSE /\ \E d \in [1 .. cfg.M -> RandDraws] :
                       X' = [c \in 1 .. cfg.M |->
                               UniformPoint(d[c], cfg.xlb, cfg.xub)]
                  /\ rng' = [rng EXCEPT ![0].pos = @ + cfg.M]
          /\ main' = [main EXCEPT
                        !.pc = IF cfg.parallel THEN "pool" ELSE "seq_burn",
                        !.i = 1]
  /\ UNCHANGED <<cfg, ex, queue, bres, ires, GRB, glog, cnt>>

(* an executor entering MChain for unit (ph, c) *)
Running(w, ph, c, loc, todo) ==
  [pc |-> "loop", ph |-> ph, c |-> c, loc |-> loc, nacc |-> 0, todo |-> todo]

LogStart(w, c, n, X0, st) ==
  [NoLog EXCEPT !.st = st, !.X0 = X0, !.n = n, !.w = w, !.gen = rng[w].gen,
                !.pos = rng[w].pos,
                !.before = {k \in Chains \ {c} :
                              \E ph \in Phases : /\ glog[ph][k].st # "new"
                                                 /\ glog[ph][k].w = w}]

(* bChain[0,:]: the first row *)
LastRow_First(ch) == ch[1]

(* bChain[-1,:] *)
LastRow(ch) == ch[Len(ch)]

LogEnd(l, e, res) ==
  [l EXCEPT !.st = "done", !.last = res.Chain[Len(res.Chain)],
            !.steps = e.loc.i,
            !.traj = IF e.ph = "s" THEN res.Chain ELSE <<>>,
            !.logp = IF e.ph = "s" THEN res.LogPost ELSE <<>>,
            !.nacc = e.nacc, !.rate = res.Accept]

Begin(N, X0) ==
  MChainBegin(cfg.like, cfg.prior, Beta(cfg.T), N, cfg.xlb, cfg.xub, X0,
              InitSigma(cfg))

(* ---- sequential mode: sampler lines 46-55 ---- *)

(* line 47-48: the burn-in call of chain i, up to the loop of MChain *)
SeqBurn ==
  /\ main.pc = "seq_burn"
  /\ IF main.i > Len(X)
     THEN /\ main' = Raise("IndexError")
          /\ UNCHANGED <<ex, glog, cnt>>
     ELSE LET loc == Begin(cfg.B, X[main.i]) IN
          IF loc.raised
          THEN /\ main' = Raise("LinAlgError")
               /\ glog' = [glog EXCEPT !["b"][main.i] =
                                  LogStart(0, main.i, cfg.B, X[main.i], "fail")]
               /\ UNCHANGED <<ex, cnt>>
          ELSE /\ main' = [main EXCEPT !.pc = "seq_burn_run"]
               /\ ex' = [ex EXCEPT ![0] = Running(0, "b", main.i, loc, <<>>)]
               /\ glog' = [glog EXCEPT !["b"][main.i] =
                                  LogStart(0, main.i, cfg.B, X[main.i], "run")]
               /\ cnt' = [cnt EXCEPT !.evals = @ + 1]
  /\ UNCHANGED <<cfg, X, rng, queue, bres, ires, Chain, ACC, LogPost,
                 ChainMerged, LogPostMerged, GRB>>

(* the history of accepted proposals beside the locals of MChain *)
Counted(e, loc) ==
  [e EXCEPT !.loc = loc, !.nacc = IF loc.acc THEN @ + 1 ELSE @]

(* one iteration of the loop of MChain (lines 98-116) in the calling thread *)
MChainStep ==
  /\ ex[0].pc = "loop"
  /\ ex[0].loc.i < ex[0].loc.N
  /\ \E z \in ZDraws, u \in UDraws :
       ex' = [ex EXCEPT ![0] =
                Counted(@, MChainIter(ex[0].loc, cfg.like, cfg.prior,
                                      Beta(cfg.T), cfg.xlb, cfg.xub, z, u))]
  /\ rng' = [rng EXCEPT ![0].pos = @ + 2]
  /\ cnt' = [steps |-> cnt.steps + 1, evals |-> cnt.evals + 1]
  /\ UNCHANGED <<cfg, main, X, queue, bres, ires, Chain, ACC, LogPost,
                 ChainMerged, LogPostMerged, GRB, glog>>

(* lines 117-118 of the burn-in run, then line 49-50: the sampling call *)
SeqSample ==
  /\ main.pc = "seq_burn_run"
  /\ ex[0].pc = "loop" /\ ex[0].loc.i = ex[0].loc.N
  /\ LET b == MChainEnd(ex[0].loc)
         loc == Begin(cfg.N, LastRow(b.Chain))
         g1 == [glog EXCEPT !["b"][main.i] = LogEnd(@, ex[0], b)]
     IN IF loc.raised
        THEN /\ main' = Raise("LinAlgError")
             /\ ex' = [ex EXCEPT ![0] = IdleEx]
             /\ glog' = g1
             /\ cnt' = cnt
        ELSE /\ main' = [main EXCEPT !.pc = "seq_samp_run"]
             /\ ex' = [ex EXCEPT ![0] = Running(0, "s", main.i, loc, <<>>)]
             /\ glog' = [g1 EXCEPT !["s"][main.i] =
                                LogStart(0, main.i, cfg.N, LastRow(b.Chain), "run")]
             /\ cnt' = [cnt EXCEPT !.evals = @ + 1]
  /\ UNCHANGED <<cfg, X, rng, queue, bres, ires, Chain, ACC, LogPost,
                 ChainMerged, LogPostMerged, GRB>>

(* every block written at the head of the array *)
SetBlock_NoOffset(arr, i, N, rows) ==
  [j \in 1 .. Len(arr) |-> IF j <= N THEN rows[j] ELSE arr[j]]

(* ChainMerged[(i*N):((i+1)*N),:] = rows, for the 1-based chain i *)
SetBlock(arr, i, N, rows) ==
  [j \in 1 .. Len(arr) |->
     IF (i - 1) * N < j /\ j <= i * N THEN rows[j - (i - 1) * N] ELSE arr[j]]

(* lines 51-55 (and 71-75): chain i's results into sampler's arrays *)
Store(arrs, i, N, res) ==
  [Chain |-> [arrs.Chain EXCEPT ![i] = res.Chain],
   ACC |-> [arrs.ACC EXCEPT ![i] = res.Accept],
   LogPost |-> [arrs.LogPost EXCEPT ![i] = res.LogPost],
   ChainMerged |-> SetBlock(arrs.ChainMerged, i, N, res.Chain),
   LogPostMerged |-> SetBlock(arrs.LogPostMerged, i, N, res.LogPost)]

Arrays ==
  [Chain |-> Chain, ACC |-> ACC, LogPost |-> LogPost,
   ChainMerged |-> ChainMerged, LogPostMerged |-> LogPostMerged]

SetArrays(a) ==
  /\ Chain' = a.Chain
  /\ ACC' = a.ACC
  /\ LogPost' = a.LogPost
  /\ ChainMerged' = a.ChainMerged
  /\ LogPostMerged' = a.LogPostMerged

(* lines 117-118 of the sampling run, then lines 51-55, then the next i *)
SeqStore ==
  /\ main.pc = "seq_samp_run"
  /\ ex[0].pc = "loop" /\ ex[0].loc.i = ex[0].loc.N
  /\ LET r == MChainEnd(ex[0].loc) IN
       /\ SetArrays(Store(Arrays, main.i, cfg.N, r))
       /\ glog' = [glog EXCEPT !["s"][main.i] = LogEnd(@, ex[0], r)]
  /\ ex' = [ex EXCEPT ![0] = IdleEx]
  /\ main' = [main EXCEPT !.i = @ + 1,
                          !.pc = IF main.i < cfg.M THEN "seq_burn" ELSE "grb"]
  /\ UNCHANGED <<cfg, X, rng, queue, bres, ires, GRB, cnt>>

(* ---- parallel mode: sampler lines 57-75 and ParaMC ---- *)

(* Pool(processes): each worker's np.random generator.  A forked worker     *)
(* inherits a copy of the parent's generator state; a spawned worker seeds  *)
(* a generator of its own.                                                  *)
WorkerRng(w) ==
  IF cfg.start = "fork" THEN [gen |-> rng[0].gen, pos |-> rng[0].pos]
  ELSE [gen |-> w, pos |-> 0]

(* one batch with the burn-in units and the sampling units, all from x *)
BurnBatch_Fused(x, M, B) ==
  [c \in 1 .. M |-> [ph |-> "b", c |-> c, N |-> B, X |-> x[c]]] \o
  [c \in 1 .. M |-> [ph |-> "s", c |-> c, N |-> cfg.N, X |-> x[c]]]

(* lines 58-62: the arguments of the burn-in units *)
BurnBatch(x, M, B) ==
  [c \in 1 .. M |-> [ph |-> "b", c |-> c, N |-> B, X |-> x[c]]]

(* lines 64-68: the arguments of the sampling units *)
SampleBatch(res, M, N) ==
  [c \in 1 .. M |-> [ph |-> "s", c |-> c, N |-> N, X |-> LastRow(res[c].Chain)]]

(* p.map cuts its tasks into chunks of this many *)
ChunkSize(n, nproc) ==
  IF n % (nproc * 4) # 0 THEN n \div (nproc * 4) + 1 ELSE n \div (nproc * 4)

(* p.map has every result of its batch *)
MapDone(res, M) == \A c \in 1 .. M : res[c].st = "ok"

(* p.map has the exception of one of its tasks *)
MapFailed(res, M) == \E c \in 1 .. M : res[c].st = "err"

Workers == 1 .. cfg.processes

(* lines 57-63: the pool, bpara, and the submission of the burn-in batch *)
PoolMapBurn ==
  /\ main.pc = "pool"
  /\ rng' = [w \in Procs |-> IF w \in Workers THEN WorkerRng(w) ELSE rng[w]]
  /\ IF Len(X) < cfg.M
     THEN main' = Raise("IndexError") /\ queue' = queue
     ELSE /\ main' = [main EXCEPT !.pc = "wait_burn"]
          /\ queue' = BurnBatch(X, cfg.M, cfg.B)
  /\ UNCHANGED <<cfg, X, ex, bres, ires, Chain, ACC, LogPost, ChainMerged,
                 LogPostMerged, GRB, glog, cnt>>

SetRes(t, r) ==
  /\ bres' = IF t.ph = "b" THEN [bres EXCEPT ![t.c] = r] ELSE bres
  /\ ires' = IF t.ph = "s" THEN [ires EXCEPT ![t.c] = r] ELSE ires

(* a worker takes its next task and runs ParaMC up to the loop of MChain;   *)
(* an exception fails the worker's chunk                                    *)
WorkerTake(w) ==
  /\ cfg.parallel /\ w \in Workers
  /\ ex[w].pc = "idle"
  /\ ex[w].todo # <<>> \/ queue # <<>>
  /\ LET fromQ == ex[w].todo = <<>>
         k == Min2(ChunkSize(cfg.M, cfg.processes), Len(queue))
         chunk == IF fromQ THEN SubSeq(queue, 1, k) ELSE ex[w].todo
         t == Head(chunk)
         loc == Begin(t.N, t.X)
     IN /\ queue' = IF fromQ THEN SubSeq(queue, k + 1, Len(queue)) ELSE queue
        /\ IF loc.raised
           THEN /\ ex' = [ex EXCEPT ![w] = IdleEx]
                /\ SetRes(t, ErrRes)
                /\ glog' = [glog EXCEPT ![t.ph][t.c] = LogStart(w, t.c, t.N, t.X, "fail")]
                /\ cnt' = cnt
           ELSE /\ ex' = [ex EXCEPT ![w] = Running(w, t.ph, t.c, loc, Tail(chunk))]
                /\ UNCHANGED <<bres, ires>>
                /\ glog' = [glog EXCEPT ![t.ph][t.c] = LogStart(w, t.c, t.N, t.X, "run")]
                /\ cnt' = [cnt EXCEPT !.evals = @ + 1]
  /\ UNCHANGED <<cfg, main, X, rng, Chain, ACC, LogPost, ChainMerged,
                 LogPostMerged, GRB>>

(* the whole loop of MChain (lines 98-116): what n iterations can leave *)
RECURSIVE MChainLoop(_, _)
MChainLoop(e, n) ==
  IF n = 0 THEN {e}
  ELSE UNION { { Counted(p, MChainIter(p.loc, cfg.like, cfg.prior, Beta(cfg.T),
                                       cfg.xlb, cfg.xub, z, u)) :
                   z \in ZDraws, u \in UDraws } : p \in MChainLoop(e, n - 1) }

(* a worker runs the loop of its unit and returns from MChain and ParaMC    *)
(* (lines 98-118, 128): the unit's result reaches p.map.  Workers are       *)
(* processes and share no memory, so the loop is one step of the worker.    *)
WorkerFinish(w) ==
  /\ cfg.parallel /\ w \in Workers
  /\ ex[w].pc = "loop"
  /\ \E e \in MChainLoop(ex[w], ex[w].loc.N) :
       LET r == MChainEnd(e.loc)
       IN /\ SetRes(ex[w], r)
          /\ glog' = [glog EXCEPT ![ex[w].ph][ex[w].c] = LogEnd(@, e, r)]
  /\ ex' = [ex EXCEPT ![w] = [IdleEx EXCEPT !.todo = ex[w].todo]]
  /\ rng' = [rng EXCEPT ![w].pos = @ + 2 * ex[w].loc.N]
  /\ cnt' = [steps |-> cnt.steps + ex[w].loc.N, evals |-> cnt.evals + ex[w].loc.N]
  /\ UNCHANGED <<cfg, main, X, queue, Chain, ACC, LogPost, ChainMerged,
                 LogPostMerged, GRB>>

(* line 63 returns; lines 64-69: ipara and the submission of the sampling batch *)
PoolMapSample ==
  /\ main.pc = "wait_burn"
  /\ MapDone(bres, cfg.M)
  /\ queue' = queue \o SampleBatch(bres, cfg.M, cfg.N)
  /\ main' = [main EXCEPT !.pc = "wait_samp"]
  /\ UNCHANGED <<cfg, X, ex, rng, bres, ires, Chain, ACC, LogPost, ChainMerged,
                 LogPostMerged, GRB, glog, cnt>>

(* p.map (line 63 or 69) re-raises the exception of a failed unit *)
PoolMapRaise ==
  /\ \/ main.pc = "wait_burn" /\ MapFailed(bres, cfg.M)
     \/ main.pc = "wait_samp" /\ MapFailed(ires, cfg.M)
  /\ main' = Raise("LinAlgError")
  /\ UNCHANGED <<cfg, X, ex, rng, queue, bres, ires, Chain, ACC, LogPost,
                 ChainMerged, LogPostMerged, GRB, glog, cnt>>

RECURSIVE StoreAll(_, _, _, _)
StoreAll(arrs, res, i, N) ==
  IF i = 0 THEN arrs ELSE Store(StoreAll(arrs, res, i - 1, N), i, N, res[i])

(* line 69 returns; lines 70-75: every chain's results into sampler's arrays *)
ParStore ==
  /\ main.pc = "wait_samp"
  /\ MapDone(ires, cfg.M)
  /\ SetArrays(StoreAll(Arrays, ires, cfg.M, cfg.N))
  /\ main' = [main EXCEPT !.pc = "grb"]
  /\ UNCHANGED <<cfg, X, ex, rng, queue, bres, ires, GRB, glog, cnt>>

(* lines 77-80: GRBfactor(Chain), and the return *)
ComputeGRB ==
  /\ main.pc = "grb"
  /\ LET g == GRBfactor(Chain) IN
       IF g.raised
       THEN main' = Raise("LinAlgError") /\ GRB' = GRB
       ELSE main' = [main EXCEPT !.pc = "returned"] /\ GRB' = g
  /\ UNCHANGED <<cfg, X, ex, rng, queue, bres, ires, Chain, ACC, LogPost,
                 ChainMerged, LogPostMerged, glog, cnt>>

Next ==
  \/ SamplerSetup
  \/ SeqBurn
  \/ SeqSample
  \/ SeqStore
  \/ MChainStep
  \/ PoolMapBurn
  \/ \E w \in Procs : WorkerTake(w)
  \/ \E w \in Procs : WorkerFinish(w)
  \/ PoolMapSample
  \/ PoolMapRaise
  \/ ParStore
  \/ ComputeGRB

Spec == Init /\ [][Next]_vars

(* sampler called with arguments that break its interface *)
SpecAny == InitAny /\ [][Next]_vars

(* ---- GRBfactor on its own: ensembles drawn from small sets ---- *)
GRBVals == 0 .. 2
GRBInputs ==
  UNION { { [c \in 1 .. m |-> t] : t \in [1 .. n -> GRBVals] } :
            m \in 1 .. (MaxM + 1), n \in 1 .. (MaxN + 1) } \cup
  [1 .. 2 -> [1 .. 2 -> GRBVals]]

InitGRB ==
  \E ens \in GRBInputs :
    /\ cfg = MkCfg([parallel |-> FALSE, processes |-> 1, start |-> "fork"],
                   Len(ens), Len(ens[1]), 1, <<0, 10>>, FALSE, <<>>, FALSE, 0,
                   "flat", None)
    /\ main = [pc |-> "grb", i |-> 0, err |-> "none"]
    /\ X = <<>>
    /\ ex = [w \in Procs |-> IdleEx]
    /\ rng = [w \in Procs |-> [gen |-> 0, pos |-> 0]]
    /\ queue = <<>>
    /\ bres = [c1 \in Chains |-> NoRes]
    /\ ires = [c1 \in Chains |-> NoRes]
    /\ Chain = ens
    /\ ACC = <<>>
    /\ LogPost = <<>>
    /\ ChainMerged = <<>>
    /\ LogPostMerged = <<>>
    /\ GRB = [raised |-> FALSE, sq |-> <<0, 1>>]
    /\ glog = [ph \in Phases |-> [c1 \in Chains |-> NoLog]]
    /\ cnt = [steps |-> 0, evals |-> 0]

NextGRB == ComputeGRB

SpecGRB == InitGRB /\ [][NextGRB]_vars

(* ======================= the claims ======================= *)

InBox(x) == cfg.xlb <= x /\ x <= cfg.xub
RowsInBox(ch, n) == \A j \in 1 .. n : InBox(ch[j])
Units == {u \in Phases \X Chains : u[2] <= cfg.M}
Log(u) == glog[u[1]][u[2]]

(* C1: every state a chain records, in the calling thread or in a unit's    *)
(* result, lies in [xlb, xub], and so does every row of the merged samples  *)
(* sampler returns.                                                         *)
C1_RecordedInBox ==
  /\ RowsInBox(ex[0].loc.Chain, ex[0].loc.i)
  /\ \A c \in Chains : /\ RowsInBox(bres[c].Chain, Len(bres[c].Chain))
                       /\ RowsInBox(ires[c].Chain, Len(ires[c].Chain))
  /\ main.pc = "returned" => RowsInBox(ChainMerged, Len(ChainMerged))

(* C2: in parallel mode no sampling unit has started unless the burn-in     *)
(* unit of every chain has completed.                                       *)
C2_Barrier ==
  cfg.parallel =>
    \A c \in 1 .. cfg.M :
      Log(<<"s", c>>).st # "new" =>
        \A k \in 1 .. cfg.M : Log(<<"b", k>>).st = "done"

(* a later chain's sampling unit has completed while an earlier chain's is  *)
(* still running, and in the burn-in batch likewise                         *)
C2_Witness ==
  /\ cfg.parallel /\ cfg.M >= 2
  /\ Log(<<"s", 2>>).st = "done" /\ Log(<<"s", 1>>).st = "run"

(* C3: in parallel mode no two units of different chains draw from the same *)
(* generator state (the same generator, or a copy, at the same position),   *)
(* and no unit draws from a generator that a unit of another chain has      *)
(* advanced before it.                                                      *)
C3_IndependentStreams ==
  cfg.parallel =>
    \A u \in Units, v \in Units :
      (Log(u).st \in {"run", "done"} /\ Log(v).st \in {"run", "done"}
       /\ u[2] # v[2]) =>
        /\ ~(Log(u).gen = Log(v).gen /\ Log(u).pos = Log(v).pos)
        /\ Log(u).before = {}

(* C4: on return the merged samples and scores have M*N entries, block i is *)
(* the trajectory (and the scores) chain i's sampling unit returned, in     *)
(* step order, and ACC[i] is that unit's accepted count over N.             *)
C4_Merge ==
  main.pc = "returned" =>
    /\ Len(ChainMerged) = cfg.M * cfg.N
    /\ Len(LogPostMerged) = cfg.M * cfg.N
    /\ \A i \in 1 .. cfg.M :
         /\ Len(Log(<<"s", i>>).traj) = cfg.N
         /\ \A j \in 1 .. cfg.N :
              /\ ChainMerged[(i - 1) * cfg.N + j] = Log(<<"s", i>>).traj[j]
              /\ LogPostMerged[(i - 1) * cfg.N + j] = Log(<<"s", i>>).logp[j]
         /\ ACC[i] = <<Log(<<"s", i>>).nacc, cfg.N>>

(* a parallel run has returned, with two chains whose trajectories, accepted *)
(* counts and burn-in accepted counts differ                                *)
C4_Witness ==
  /\ main.pc = "returned" /\ cfg.parallel /\ cfg.M >= 2
  /\ Log(<<"s", 1>>).traj # Log(<<"s", 2>>).traj
  /\ Log(<<"s", 1>>).nacc # Log(<<"s", 2>>).nacc
  /\ Log(<<"s", 1>>).nacc # Log(<<"b", 1>>).nacc

NonPD == InitSigma(cfg) <= 0

(* C5: with a covariance that is not positive definite no loop iteration of *)
(* any chain and no score evaluation has executed, sampler has neither      *)
(* reached its merge nor returned, and it can only stop in an error.        *)
C5_NonPDFailsFirst ==
  NonPD =>
    /\ cnt.steps = 0 /\ cnt.evals = 0
    /\ main.pc \in {"entry", "seq_burn", "pool", "wait_burn", "error"}
    /\ \A u \in Units : Log(u).st \in {"new", "fail"}
    /\ (main.pc # "error" => ENABLED Next)

(* the error has reached the caller of a parallel run *)
C5_Witness ==
  /\ NonPD /\ cfg.parallel /\ cfg.M >= 2
  /\ main.pc = "error" /\ main.err = "LinAlgError"
  /\ Log(<<"b", 2>>).st = "fail"

(* C6: with arguments that break the interface no chain has run: no unit    *)
(* has started, no loop iteration and no score evaluation has executed, and *)
(* sampler does not return.                                                 *)
C6_ConfigErrorFirst ==
  BadConfig(cfg) =>
    /\ cnt.steps = 0 /\ cnt.evals = 0
    /\ \A u \in Units : Log(u).st = "new"
    /\ main.pc # "returned"

(* C7: the rate a unit returns is its accepted count over its length, lies  *)
(* in [0,1], and is 1 when the score is the same everywhere.                *)
C7_AcceptRate ==
  \A u \in Units :
    Log(u).st = "done" =>
      /\ REq(Log(u).rate, <<Log(u).nacc, Log(u).n>>)
      /\ Log(u).rate[2] > 0
      /\ RLe(<<0, 1>>, Log(u).rate) /\ RLe(Log(u).rate, <<1, 1>>)
      /\ cfg.like = "flat" => REq(Log(u).rate, <<1, 1>>)

(* a unit of two steps under the flat score has returned *)
C7_Witness ==
  \E u \in Units :
    /\ Log(u).st = "done" /\ cfg.like = "flat" /\ Log(u).n >= 2
    /\ Log(u).nacc = Log(u).n

Identical(ens) == \A c \in 1 .. Len(ens) : ens[c] = ens[1]
NonConstant(t) == \E j \in 1 .. Len(t) : t[j] # t[1]

(* C8: for two or more identical copies of a trajectory whose variance is   *)
(* not zero, GRBfactor returns, and its square is (N-1)/N.                  *)
C8_IdenticalChains ==
  (main.pc # "grb" /\ Len(Chain) >= 2 /\ Identical(Chain)
   /\ NonConstant(Chain[1])) =>
    /\ main.pc = "returned"
    /\ REq(GRB.sq, <<Len(Chain[1]) - 1, Len(Chain[1])>>)

(* three copies of a trajectory of three states have been through GRBfactor *)
C8_Witness ==
  /\ main.pc = "returned" /\ Len(Chain) >= 3 /\ Identical(Chain)
  /\ Len(Chain[1]) >= 3 /\ NonConstant(Chain[1])

(* C9: chain i's burn-in unit starts from X[i] and runs B steps; its        *)
(* sampling unit starts, after that burn-in has returned, from the state    *)
(* its B-th step recorded; what sampler merges and hands to GRBfactor is    *)
(* the sampling unit's trajectory.                                          *)
C9_Phases ==
  \A i \in 1 .. cfg.M :
    /\ Log(<<"b", i>>).st \in {"run", "done"} =>
         /\ Log(<<"b", i>>).X0 = X[i]
         /\ Log(<<"b", i>>).n = cfg.B
    /\ Log(<<"b", i>>).st = "done" => Log(<<"b", i>>).steps = cfg.B
    /\ Log(<<"s", i>>).st \in {"run", "done"} =>
         /\ Log(<<"b", i>>).st = "done"
         /\ Log(<<"s", i>>).X0 = Log(<<"b", i>>).last
         /\ Log(<<"s", i>>).n = cfg.N
    /\ main.pc \in {"grb", "returned"} =>
         /\ Chain[i] = Log(<<"s", i>>).traj
         /\ \A j \in 1 .. cfg.N :
              ChainMerged[(i - 1) * cfg.N + j] = Log(<<"s", i>>).traj[j]

(* after a burn-in of two steps a sampling unit has started from a state    *)
(* that is neither its chain's initial point nor another chain's last state *)
C9_Witness ==
  /\ cfg.M >= 2 /\ cfg.B >= 2
  /\ Log(<<"s", 2>>).st = "done"
  /\ Log(<<"s", 2>>).X0 # X[2]
  /\ Log(<<"s", 2>>).X0 # Log(<<"b", 1>>).last

Score(x) == flogpost(cfg.like, cfg.prior, Beta(cfg.T), cfg.xlb, cfg.xub, x)
Scored(ch, lp, n) == \A j \in 1 .. n : lp[j] = Score(ch[j])

(* C10: in the calling thread, after each step the cached pX is the score   *)
(* of X, every recorded score is the score of the recorded state, and the   *)
(* state recorded last is the clipped proposal if the step accepted and the *)
(* state before it (the starting point at the first step) if not; a unit    *)
(* returns after exactly N steps, with the scores of its N states.          *)
C10_KernelInvariant ==
  /\ ex[0].pc = "loop" =>
       LET l == ex[0].loc
           start == Log(<<ex[0].ph, ex[0].c>>).X0
       IN /\ l.pX = Score(l.X)
          /\ Scored(l.Chain, l.LogPost, l.i)
          /\ l.i >= 1 =>
               /\ InBox(l.Xt)
               /\ l.Chain[l.i] = IF l.acc THEN l.Xt
                                 ELSE IF l.i = 1 THEN start
                                 ELSE l.Chain[l.i - 1]
  /\ \A c \in 1 .. cfg.M :
       /\ Scored(bres[c].Chain, bres[c].LogPost, Len(bres[c].Chain))
       /\ Scored(ires[c].Chain, ires[c].LogPost, Len(ires[c].Chain))
  /\ \A u \in Units :
       Log(u).st = "done" =>
         /\ Log(u).steps = Log(u).n
         /\ u[1] = "s" => /\ Len(Log(u).traj) = Log(u).n
                          /\ Scored(Log(u).traj, Log(u).logp, Log(u).n)

(* a second step has been rejected after an accepted first step *)
C10_Witness ==
  /\ ex[0].pc = "loop" /\ ex[0].loc.i = 2 /\ ~ex[0].loc.acc
  /\ ex[0].loc.Chain[1] # Log(<<ex[0].ph, ex[0].c>>).X0
  /\ cfg.like = "slope"

====
